---- MODULE Spec2Model ----
(***************************************************************************)
(* Model of bskyhaialert (src/main.go): a process that, at startup, builds *)
(* an authenticated client from a credential cache file (newClient),       *)
(* fetches the profile counters once (fetchData), and then runs a daily    *)
(* job that fetches again, renders the differences and posts them.         *)
(*                                                                         *)
(* The credential file lives on disk and survives the process; everything  *)
(* else (client.Auth, data) is process memory and is lost when the process *)
(* ends.  Strings are sequences of one-character strings wherever the code *)
(* builds them (formatDiff, the template); the bytes of the credential     *)
(* file are a sequence of JSON tokens.                                     *)
(***************************************************************************)
EXTENDS Integers, Sequences, FiniteSets, TLC

VARIABLES
    pc,           \* where the process is: "off", "running", "fatal", "panic"
    fileExists,   \* os.Stat(authFileName) succeeds
    fileContent,  \* bytes of the credential file, <<>> when absent or empty
    auth,         \* client.Auth of the running process
    data,         \* main's variable data: the snapshot the diffs are taken from
    run,          \* observation of the last newClient call
    tick,         \* observation of the last run of the daily job
    lastFetch,    \* observation of the last fetchData call
    prevSuccess,  \* snapshot fetched by the last fully successful tick, or at startup
    call          \* one call of a function of the program examined on its own:
                  \* its arguments and, once made, its result

vars == <<pc, fileExists, fileContent, auth, data, run, tick, lastFetch, prevSuccess, call>>

----------------------------------------------------------------------------
(* Bounds *)

\* profile counters range over 0..MaxCount
MaxCount == 1

----------------------------------------------------------------------------
(* Values *)

\* a nil *int64 in the profile response
Nil == -1

\* the loaded Config (config.json)
cfg == [Host |-> "https://host", Handle |-> "alice", Password |-> "secret"]

\* xrpc.AuthInfo as newClient constructs it: only the handle is set
EmptyAuth == [AccessJwt |-> "", RefreshJwt |-> "", Handle |-> cfg.Handle, Did |-> ""]

\* client.Auth when there is no client (process not running)
NoAuth == [AccessJwt |-> "", RefreshJwt |-> "", Handle |-> "", Did |-> ""]

\* sessions the identity service can hand out (createSession / refreshSession output)
Sessions ==
    { [Did |-> "did:plc:alice", AccessJwt |-> "access1", RefreshJwt |-> "refresh1"],
      [Did |-> "did:plc:alice", AccessJwt |-> "access2", RefreshJwt |-> "refresh2"] }

\* Data{} : the zero value
ZeroData == [Posts |-> 0, Follows |-> 0, Followers |-> 0]

\* main's data when the process holds none (not running)
NoData == [Posts |-> Nil, Follows |-> Nil, Followers |-> Nil]

Counts == 0..MaxCount

\* what bsky.ActorGetProfile can return: an error, or a profile whose three
\* counters are optional pointers
ProfileResponses ==
    [err : {TRUE}, PostsCount : {Nil}, FollowsCount : {Nil}, FollowersCount : {Nil}]
    \cup
    [err : {FALSE}, PostsCount : Counts \cup {Nil}, FollowsCount : Counts \cup {Nil},
     FollowersCount : Counts \cup {Nil}]

----------------------------------------------------------------------------
(* Strings built by the code *)

Digit(n) == <<"0", "1", "2", "3", "4", "5", "6", "7", "8", "9">>[n + 1]

RECURSIVE Dec(_)
\* fmt "%d" of a non-negative integer
Dec(n) == IF n < 10 THEN <<Digit(n)>> ELSE Dec(n \div 10) \o <<Digit(n % 10)>>

\* fmt "%d" of any integer
FmtD(n) == IF n < 0 THEN <<"-">> \o Dec(0 - n) ELSE Dec(n)

\* the one character U+00B1 (plus-minus sign), written in ASCII
PlusMinus == "+-"

\* a mutant of formatDiff: a positive diff gets no sign
formatDiff_NoPlus(diff) ==
    IF diff = 0 THEN <<PlusMinus, "0">> ELSE FmtD(diff)

formatDiff(diff) ==
    IF diff = 0 THEN <<PlusMinus, "0">>
    ELSE IF diff > 0 THEN <<"+">> \o FmtD(diff)
    ELSE FmtD(diff)

\* a mutant of MakeParam: the follows diff is taken from the followers counter
MakeParam_Mixed(old, new) ==
    [ PostsCount         |-> old.Posts,
      PostsCountDiff     |-> new.Posts - old.Posts,
      FollowsCount       |-> old.Follows,
      FollowsCountDiff   |-> new.Followers - old.Follows,
      FollowersCount     |-> old.Followers,
      FollowersCountDiff |-> new.Followers - old.Followers ]

\* a mutant of MakeParam: the counts shown are the newly fetched ones
MakeParam_ShowsNew(old, new) ==
    [ PostsCount         |-> new.Posts,
      PostsCountDiff     |-> new.Posts - old.Posts,
      FollowsCount       |-> new.Follows,
      FollowsCountDiff   |-> new.Follows - old.Follows,
      FollowersCount     |-> new.Followers,
      FollowersCountDiff |-> new.Followers - old.Followers ]

\* the Param built by the daily job from data and newData
MakeParam(old, new) ==
    [ PostsCount         |-> old.Posts,
      PostsCountDiff     |-> new.Posts - old.Posts,
      FollowsCount       |-> old.Follows,
      FollowsCountDiff   |-> new.Follows - old.Follows,
      FollowersCount     |-> old.Followers,
      FollowersCountDiff |-> new.Followers - old.Followers ]

\* tmpl.Execute(buf, param) with POST_FORMAT: the literal text of the template with
\* the fields of param in it; the date stays the symbol "Yesterday" (the wall clock
\* is not part of the state); the Japanese literals are written in ASCII
POST_FORMAT(p) ==
    <<"[", "Yesterday", " stats]", "\n">>
    \o <<"posts: ">> \o FmtD(p.PostsCount)
    \o <<"(">> \o formatDiff(p.PostsCountDiff) \o <<")", "\n">>
    \o <<"follows: ">> \o FmtD(p.FollowsCount)
    \o <<"(">> \o formatDiff(p.FollowsCountDiff) \o <<")", "\n">>
    \o <<"followers: ">> \o FmtD(p.FollowersCount)
    \o <<"(">> \o formatDiff(p.FollowersCountDiff) \o <<")", ")">>

----------------------------------------------------------------------------
(* Credential file *)

\* json.Marshal(auth): the fields of xrpc.AuthInfo in declaration order
Marshal(a) ==
    << "{", "accessJwt", a.AccessJwt, "refreshJwt", a.RefreshJwt,
       "handle", a.Handle, "did", a.Did, "}" >>

\* whether b is a complete JSON object of the AuthInfo shape
WellFormed(b) ==
    /\ Len(b) = 10
    /\ b[1] = "{" /\ b[2] = "accessJwt" /\ b[4] = "refreshJwt"
    /\ b[6] = "handle" /\ b[8] = "did" /\ b[10] = "}"

\* json.Unmarshal(b, client.Auth): an error on anything that is not a complete
\* JSON value (the empty input included), else the fields are stored into a
Unmarshal(b, a) ==
    IF WellFormed(b)
    THEN [err |-> FALSE,
          auth |-> [AccessJwt |-> b[3], RefreshJwt |-> b[5], Handle |-> b[7], Did |-> b[9]]]
    ELSE [err |-> TRUE, auth |-> a]

----------------------------------------------------------------------------
(* newClient and its helpers *)

\* what the world outside the process decides during one newClient call
ClientEnvs ==
    [ openOk    : BOOLEAN,     \* os.Create succeeds
      readOk    : BOOLEAN,     \* io.ReadAll succeeds
      refreshOk : BOOLEAN,     \* the identity service accepts the refresh token
      createOk  : BOOLEAN,     \* the identity service accepts handle + password
      sess      : Sessions,    \* the session the identity service returns when it accepts
      writeOk   : BOOLEAN,     \* file.Write succeeds
      written   : 0..(Len(Marshal(EmptyAuth)) - 1) ]  \* tokens a failed Write got out

\* the environments of a call that finds the file present or not: what never gets
\* decided in that case (no read and no refresh without a file, no short write
\* when the write succeeds) is fixed
ClientEnvsFor(fe) ==
    { e \in ClientEnvs :
        /\ (~fe => e.readOk /\ e.refreshOk)
        /\ (e.writeOk => e.written = 0) }

existsFile(fe) == fe

\* os.Create(name): O_RDWR|O_CREATE|O_TRUNC: the file exists and is empty afterwards,
\* whatever it held; a failed open leaves the file system as it was
osCreate(fe, fc, ok) ==
    IF ok THEN [err |-> FALSE, exists |-> TRUE, content |-> <<>>]
    ELSE [err |-> TRUE, exists |-> fe, content |-> fc]

\* io.ReadAll(file) on the handle os.Create returned: the bytes the file now holds
ReadAll(content, ok) ==
    IF ok THEN [err |-> FALSE, b |-> content] ELSE [err |-> TRUE, b |-> <<>>]

\* the session fields stored into client.Auth
Adopt(a, session) ==
    [a EXCEPT !.Did = session.Did, !.AccessJwt = session.AccessJwt,
              !.RefreshJwt = session.RefreshJwt]

createSession(a, env) ==
    IF env.createOk
    THEN [err |-> FALSE, auth |-> Adopt(a, env.sess)]
    ELSE [err |-> TRUE, auth |-> a]

\* a mutant of saveSession: reports success without writing anything
saveSession_NoWrite(a, content, env) == [err |-> FALSE, content |-> content]

\* saveSession(auth, file): file.Write appends the marshalled credentials at the
\* handle's offset, which is the end of what os.Create left
saveSession(a, content, env) ==
    IF env.writeOk
    THEN [err |-> FALSE, content |-> content \o Marshal(a)]
    ELSE [err |-> TRUE, content |-> content \o SubSeq(Marshal(a), 1, env.written)]

\* the result of newClient: err = "" is a returned client
ClientResult(err, a, fe, fc, creates, refreshes, refreshWith) ==
    [ err |-> err, auth |-> a, fileExists |-> fe, fileContent |-> fc,
      createCalls |-> creates, refreshCalls |-> refreshes, refreshWith |-> refreshWith ]

\* createSession followed by saveSession, as both branches of newClient do it
CreateAndSave(a, f, env, refreshes, refreshWith) ==
    LET cs == createSession(a, env)
        ss == saveSession(cs.auth, f.content, env)
    IN  IF cs.err
        THEN ClientResult("failed to create session", NoAuth, f.exists, f.content,
                          1, refreshes, refreshWith)
        ELSE IF ss.err
        THEN ClientResult("failed to save session", NoAuth, f.exists, ss.content,
                          1, refreshes, refreshWith)
        ELSE ClientResult("", cs.auth, f.exists, ss.content, 1, refreshes, refreshWith)

\* newClient(ctx, cfg), given the file as it is on disk (fe, fc)
newClient(fe, fc, env) ==
    LET exists == existsFile(fe)
        f      == osCreate(fe, fc, env.openOk)
        rd     == ReadAll(f.content, env.readOk)
        u      == Unmarshal(rd.b, EmptyAuth)
    IN  IF f.err
        THEN ClientResult("failed to open auth file", NoAuth, f.exists, f.content, 0, 0, "")
        ELSE IF exists
        THEN IF rd.err
             THEN ClientResult("failed to read auth file", NoAuth, f.exists, f.content, 0, 0, "")
             ELSE IF u.err
             THEN ClientResult("failed to parse auth file", NoAuth, f.exists, f.content, 0, 0, "")
             ELSE IF ~env.refreshOk
             THEN CreateAndSave(u.auth, f, env, 1, u.auth.RefreshJwt)
             ELSE ClientResult("", Adopt(u.auth, env.sess), f.exists, f.content,
                               0, 1, u.auth.RefreshJwt)
        ELSE CreateAndSave(EmptyAuth, f, env, 0, "")

----------------------------------------------------------------------------
(* fetchData and the daily job *)

\* fetchData(ctx, client): an error when the call errors; dereferencing a nil
\* counter is a run-time panic, which nothing recovers
fetchData(resp) ==
    IF resp.err THEN [kind |-> "error", data |-> ZeroData]
    ELSE IF resp.PostsCount = Nil \/ resp.FollowsCount = Nil \/ resp.FollowersCount = Nil
    THEN [kind |-> "panic", data |-> NoData]
    ELSE [kind |-> "ok",
          data |-> [Posts |-> resp.PostsCount, Follows |-> resp.FollowsCount,
                    Followers |-> resp.FollowersCount]]

\* a mutant of dataAfterJob: the baseline advances as soon as the fetch succeeded
dataAfterJob_Eager(old, new, posted) == new

\* main's data after a run of the daily job that fetched new: the closure reads
\* data and never assigns it
dataAfterJob(old, new, posted) == old

NoParam == MakeParam(ZeroData, ZeroData)

\* the response of an errored call, and the record kept of a fetchData call
ErrorResponse ==
    [err |-> TRUE, PostsCount |-> Nil, FollowsCount |-> Nil, FollowersCount |-> Nil]

NoFetch == [called |-> FALSE, resp |-> ErrorResponse, kind |-> "none"]

FetchOf(resp) == [called |-> TRUE, resp |-> resp, kind |-> fetchData(resp).kind]

NoTick ==
    [ outcome |-> "none", baseline |-> NoData, fetched |-> NoData, param |-> NoParam, repo |-> "", fetchCalls |-> 0, postCalls |-> 0 ]

\* the decisions of an environment, without the values that came with them
Decisions(env) ==
    [ openOk |-> env.openOk, readOk |-> env.readOk, refreshOk |-> env.refreshOk,
      createOk |-> env.createOk, writeOk |-> env.writeOk ]

NoRun ==
    [ called |-> FALSE, existed |-> FALSE, before |-> <<>>,
      env |-> [openOk |-> TRUE, readOk |-> TRUE, refreshOk |-> TRUE, createOk |-> TRUE,
               writeOk |-> TRUE],
      err |-> "", auth |-> NoAuth, createCalls |-> 0, refreshCalls |-> 0,
      refreshWith |-> "" ]

----------------------------------------------------------------------------
(* The process *)

\* no function is examined on its own while the process runs
NoCall == [op |-> "none", done |-> FALSE]

\* the process before it is started, no credential file on disk
Off ==
    /\ pc = "off"
    /\ fileExists = FALSE
    /\ fileContent = <<>>
    /\ auth = NoAuth
    /\ data = NoData
    /\ run = NoRun
    /\ tick = NoTick
    /\ lastFetch = NoFetch
    /\ prevSuccess = NoData

Init ==
    /\ Off
    /\ call = NoCall

\* the record kept of a newClient call
RunOf(c, env) ==
    [ called |-> TRUE, existed |-> fileExists, before |-> fileContent,
      env |-> Decisions(env), err |-> c.err, auth |-> c.auth, createCalls |-> c.createCalls, refreshCalls |-> c.refreshCalls,
      refreshWith |-> c.refreshWith ]

\* a mutant of Ended: the error is logged and the process goes on
Ended_GoesOn(how) ==
    /\ pc' = "running"
    /\ auth' = NoAuth /\ data' = NoData /\ prevSuccess' = NoData

\* the process ends (log.Fatalf, or a panic): its memory is gone
Ended(how) ==
    /\ pc' = how
    /\ auth' = NoAuth /\ data' = NoData /\ prevSuccess' = NoData

\* main(), from the start of the process up to s.StartBlocking(): load the config,
\* newClient, the startup fetchData; log.Fatalf ends the process
Main ==
    /\ pc # "running"
    /\ tick' = NoTick
    /\ UNCHANGED call
    /\ \E cfgOk \in BOOLEAN :
         IF ~cfgOk
         THEN /\ Ended("fatal")
              /\ run' = NoRun
              /\ lastFetch' = NoFetch
              /\ UNCHANGED <<fileExists, fileContent>>
         ELSE \E env \in ClientEnvsFor(fileExists) :
                LET c == newClient(fileExists, fileContent, env)
                IN  /\ fileExists' = c.fileExists
                    /\ fileContent' = c.fileContent
                    /\ run' = RunOf(c, env)
                    /\ IF c.err # ""
                       THEN /\ Ended("fatal")
                            /\ lastFetch' = NoFetch
                       ELSE \E resp \in ProfileResponses :
                              LET f == fetchData(resp)
                              IN  /\ lastFetch' = FetchOf(resp)
                                  /\ IF f.kind = "ok"
                                     THEN /\ pc' = "running"
                                          /\ auth' = c.auth
                                          /\ data' = f.data
                                          /\ prevSuccess' = f.data
                                     ELSE IF f.kind = "panic"
                                     THEN Ended("panic")
                                     ELSE Ended("fatal")

\* the record kept of a run of the daily job: the snapshots it saw, and the param
\* and repo of the record it sent (the text sent is POST_FORMAT of that param)
TickOf(outcome, new, param, repo, posts) ==
    [ outcome |-> outcome, baseline |-> data, fetched |-> new,
      param |-> param, repo |-> repo, fetchCalls |-> 1, postCalls |-> posts ]

\* a mutant of post: the record goes to the repo named by the handle
post_ByHandle(a, text, ok) == [err |-> ~ok, repo |-> a.Handle, text |-> text]

\* post(ctx, client, text): one createRecord call in the repo client.Auth.Did
post(a, text, ok) == [err |-> ~ok, repo |-> a.Did, text |-> text]

\* the job given to s.Every(1).Day().At("00:00").Do: one run of it
Tick ==
    /\ pc = "running"
    /\ \E resp \in ProfileResponses :
         LET f     == fetchData(resp)
             param == MakeParam(data, f.data)
             text  == POST_FORMAT(param)
             sent(ok) == post(auth, text, ok)
         IN  /\ lastFetch' = FetchOf(resp)
             /\ IF f.kind = "panic"
                THEN /\ Ended("panic")
                     /\ tick' = [NoTick EXCEPT !.outcome = "panic", !.fetchCalls = 1]
                ELSE IF f.kind = "error"
                THEN /\ tick' = TickOf("fetchFailed", NoData, NoParam, "", 0)
                     /\ UNCHANGED <<pc, auth, data, prevSuccess>>
                ELSE \E postOk \in BOOLEAN :
                       IF sent(postOk).err
                       THEN /\ tick' = TickOf("postFailed", f.data, param, sent(postOk).repo, 1)
                            /\ data' = dataAfterJob(data, f.data, FALSE)
                            /\ UNCHANGED <<pc, auth, prevSuccess>>
                       ELSE /\ tick' = TickOf("success", f.data, param, sent(postOk).repo, 1)
                            /\ data' = dataAfterJob(data, f.data, TRUE)
                            /\ prevSuccess' = f.data
                            /\ UNCHANGED <<pc, auth>>
    /\ UNCHANGED <<fileExists, fileContent, run, call>>

\* s.StartBlocking() never returns: the process ends only by being stopped from
\* outside, and its memory goes with it
Stop ==
    /\ pc = "running"
    /\ Ended("off")
    /\ tick' = NoTick
    /\ lastFetch' = NoFetch
    /\ UNCHANGED <<fileExists, fileContent, run, call>>

Next == Main \/ Tick \/ Stop

Spec == Init /\ [][Next]_vars

----------------------------------------------------------------------------
(* formatDiff on its own: every diff in -MaxDiff..MaxDiff is formatted once *)

\* diffs range over -MaxDiff..MaxDiff
MaxDiff == 120

\* the process never started
Idle == UNCHANGED <<pc, fileExists, fileContent, auth, data, run, tick, lastFetch, prevSuccess>>

InitFormat ==
    /\ Off
    /\ \E d \in (0 - MaxDiff)..MaxDiff :
         call = [op |-> "formatDiff", diff |-> d, out |-> <<>>, done |-> FALSE]

CallFormatDiff ==
    /\ call.op = "formatDiff" /\ ~call.done
    /\ call' = [call EXCEPT !.out = formatDiff(call.diff), !.done = TRUE]
    /\ Idle

SpecFormat == InitFormat /\ [][CallFormatDiff]_vars

----------------------------------------------------------------------------
(* The credential file's name on its own: derived for two (host, handle) pairs *)

\* host and handle strings have 1..MaxLen characters
MaxLen == 2

\* the characters host and handle are made of
NameChars == {"a", "_"}

\* the strings of 1..MaxLen characters
Names == UNION { [1..n -> NameChars] : n \in 1..MaxLen }

\* fmt.Sprintf("%s_%s", cfg.Host, cfg.Handle)
HostHandle(host, handle) == host \o <<"_">> \o handle

\* sha256.Sum256(b): the digest stands for its input, so that two digests are equal
\* exactly when their inputs are (the hash is taken to be injective)
Sum256(b) == [digestOf |-> b]

\* hex.EncodeToString(b[:]): one-to-one on digests
EncodeToString(h) == <<"hex(">> \o h.digestOf \o <<")">>

\* authFileName in newClient
authFileName(host, handle) ==
    <<"auth_">> \o EncodeToString(Sum256(HostHandle(host, handle))) \o <<".json">>

InitKey ==
    /\ Off
    /\ \E h1 \in Names, u1 \in Names, h2 \in Names, u2 \in Names :
         call = [ op |-> "authFileName", host1 |-> h1, handle1 |-> u1,
                  host2 |-> h2, handle2 |-> u2,
                  name1 |-> <<>>, again1 |-> <<>>, name2 |-> <<>>, done |-> FALSE ]

\* both names are derived, the first one twice
CallAuthFileName ==
    /\ call.op = "authFileName" /\ ~call.done
    /\ call' = [call EXCEPT !.name1 = authFileName(call.host1, call.handle1),
                            !.again1 = authFileName(call.host1, call.handle1),
                            !.name2 = authFileName(call.host2, call.handle2),
                            !.done = TRUE]
    /\ Idle

SpecKey == InitKey /\ [][CallAuthFileName]_vars

----------------------------------------------------------------------------
(* The createdAt of a post on its own.  Time is counted in hours: an instant is *)
(* the number of hours since the epoch, a time zone its offset from UTC.        *)

\* instants range over 0..MaxInstant
MaxInstant == 47

\* the offsets from UTC of the zones the process may run in (time.Local)
Offsets == {-5, 0, 9}

\* time.Now(): the instant, carrying the local zone
Now(instant, offset) == [instant |-> instant, offset |-> offset]

\* no timestamp yet
NoStamp == [date |-> 0, hour |-> 0, zone |-> ""]

\* t.Format(ISO8601): the layout "2006-01-02T15:04:05.000Z" prints the date and the
\* clock reading of t in t's own zone; its last character is no zone directive, so
\* the letter Z is printed as it stands
ISO8601(t) ==
    [ date |-> (t.instant + t.offset) \div 24,
      hour |-> (t.instant + t.offset) % 24,
      zone |-> "Z" ]

\* CreatedAt of the bsky.FeedPost built by post
CreatedAt(instant, offset) == ISO8601(Now(instant, offset))

\* the instant a timestamp with the zone letter Z denotes: its date and clock
\* reading are UTC
Denoted(stamp) == stamp.date * 24 + stamp.hour

InitTime ==
    /\ Off
    /\ \E i \in 0..MaxInstant, o \in Offsets :
         call = [ op |-> "post", instant |-> i, offset |-> o,
                  createdAt |-> NoStamp, done |-> FALSE ]

CallCreatedAt ==
    /\ call.op = "post" /\ ~call.done
    /\ call' = [call EXCEPT !.createdAt = CreatedAt(call.instant, call.offset),
                            !.done = TRUE]
    /\ Idle

SpecTime == InitTime /\ [][CallCreatedAt]_vars

----------------------------------------------------------------------------
(* Properties *)

\* the credentials a credential file holds
Stored(b) == Unmarshal(b, EmptyAuth).auth

\* the last newClient call found a file holding credentials saved by an earlier run
CachedRun == run.called /\ run.existed /\ WellFormed(run.before)

\* the last newClient call found no file
FirstRun == run.called /\ ~run.existed

\* the three diffs of param p are new - old, field by field
DiffsAre(p, old, new) ==
    /\ p.PostsCountDiff = new.Posts - old.Posts
    /\ p.FollowsCountDiff = new.Follows - old.Follows
    /\ p.FollowersCountDiff = new.Followers - old.Followers

\* C1: after a tick in which the fetch and the publish both succeeded, the baseline
\* the process holds (and so the one the next tick uses) is the snapshot fetched in
\* that tick.
C1_BaselineAdvances == tick.outcome = "success" => data = tick.fetched

\* C2: the diffs a tick publishes are the fetched values minus the values fetched at
\* the previous successful tick (the startup snapshot when no tick succeeded yet).
C2_DiffsSincePreviousSuccess ==
    [][ (pc = "running" /\ pc' = "running" /\ tick'.postCalls = 1)
        => DiffsAre(tick'.param, prevSuccess, tick'.fetched) ]_vars

\* C3: with a credential file saved by an earlier run and an identity service that
\* accepts the stored refresh token, newClient returns a client, having called
\* refresh once with the stored refresh token and never createSession.
C3_ValidCacheRefreshes ==
    (CachedRun /\ run.env.openOk /\ run.env.readOk /\ run.env.refreshOk)
    => /\ run.err = ""
       /\ run.refreshCalls = 1
       /\ run.refreshWith = Stored(run.before).RefreshJwt
       /\ run.createCalls = 0

\* C4: with a credential file and an identity service that rejects the refresh,
\* newClient falls back to createSession, writes the new credentials to the
\* credential file and returns the client.
C4_RejectedRefreshRecreates ==
    (CachedRun /\ run.env.openOk /\ run.env.readOk /\ ~run.env.refreshOk
       /\ run.env.createOk /\ run.env.writeOk)
    => /\ run.err = ""
       /\ run.refreshCalls = 1
       /\ run.createCalls = 1
       /\ fileExists
       /\ fileContent = Marshal(run.auth)

\* C5: only a full authentication changes the credential file: a newClient call on
\* the cached path whose refresh is accepted leaves the file with exactly the
\* content it had before the call, and the file is not emptied or deleted.
C5_FileKeptOnRefresh ==
    (CachedRun /\ run.env.openOk /\ run.env.readOk /\ run.env.refreshOk)
    => /\ fileExists
       /\ fileContent # <<>>
       /\ fileContent = run.before

\* C6 as stated: with no credential file and a createSession that succeeds,
\* newClient has called createSession exactly once, refresh never, and the
\* credential file holds the serialized credentials just obtained.
C6_FirstRunPersists ==
    (FirstRun /\ run.createCalls >= 1 /\ run.env.createOk)
    => /\ run.createCalls = 1
       /\ run.refreshCalls = 0
       /\ fileExists
       /\ \E s \in Sessions : fileContent = Marshal(Adopt(EmptyAuth, s))

\* C6 amended: with no credential file, a createSession that succeeds and a write of
\* the credential file that succeeds, newClient returns a client, has called
\* createSession exactly once, refresh never, and the credential file holds exactly
\* the serialized credentials of the returned client, which are those of the session
\* just obtained.
C6_FirstRunPersistsWhenWritten ==
    (FirstRun /\ run.createCalls >= 1 /\ run.env.createOk /\ run.env.writeOk)
    => /\ run.err = ""
       /\ run.createCalls = 1
       /\ run.refreshCalls = 0
       /\ fileExists
       /\ fileContent = Marshal(run.auth)
       /\ \E s \in Sessions : run.auth = Adopt(EmptyAuth, s)

\* a first run that authenticated and saved
C6_Witness ==
    /\ FirstRun /\ run.env.createOk /\ run.env.writeOk
    /\ run.err = "" /\ run.createCalls = 1
    /\ pc = "running" /\ fileContent = Marshal(auth)

\* C7: no per-tick error ends the process: after a tick whose fetch errored, whose
\* profile lacked a counter, or whose publish failed, the process is still running.
C7_TickErrorsKeepRunning ==
    tick.outcome \in {"fetchFailed", "panic", "postFailed"} => pc = "running"

\* C8: fetchData returns an error (no snapshot, no crash) both when the profile call
\* errors and when the response lacks one of the three counters.
C8_FetchFailuresAreErrors ==
    ( /\ lastFetch.called
      /\ \/ lastFetch.resp.err
         \/ Nil \in {lastFetch.resp.PostsCount, lastFetch.resp.FollowsCount,
                     lastFetch.resp.FollowersCount} )
    => lastFetch.kind = "error"

\* C9: a step of the running process that is not the end of a tick whose fetch and
\* publish both succeeded leaves the baseline as it was: a tick that aborts on the
\* fetch or on the publish does not touch it.
C9_AbortedTickKeepsBaseline ==
    [][ (pc = "running" /\ pc' = "running" /\ tick'.outcome # "success")
        => data' = data ]_vars

\* a tick that fetched a snapshot other than the baseline and failed to publish
C9_Witness ==
    /\ pc = "running"
    /\ tick.outcome = "postFailed"
    /\ tick.fetched # tick.baseline
    /\ data = tick.baseline

\* C10: a newClient call that fails leaves the credential store as it found it, and
\* a credential file that exists holds valid serialized credentials.
C10_FailedStartupLeavesStore ==
    /\ (run.called /\ run.err # "")
       => (fileExists = run.existed /\ fileContent = run.before)
    /\ fileExists => WellFormed(fileContent)

\* the decimal digits and their values
DigitChars == {"0", "1", "2", "3", "4", "5", "6", "7", "8", "9"}

DigitValue(c) == CHOOSE n \in 0..9 : Digit(n) = c

RECURSIVE ValueOf(_)
\* the number a sequence of decimal digits denotes
ValueOf(ds) ==
    IF ds = <<>> THEN 0
    ELSE 10 * ValueOf(SubSeq(ds, 1, Len(ds) - 1)) + DigitValue(ds[Len(ds)])

\* ds is the decimal rendering of the positive number n: digits only, no leading zero
IsDecimalOf(ds, n) ==
    /\ ds # <<>>
    /\ \A i \in 1..Len(ds) : ds[i] \in DigitChars
    /\ ds[1] # "0"
    /\ ValueOf(ds) = n

\* C11: formatDiff(0) is the plus-minus sign followed by "0"; formatDiff(d) for d > 0
\* is "+" followed by the decimal digits of d; formatDiff(d) for d < 0 is the plain
\* signed rendering of d: one "-" followed by the decimal digits of -d.
C11_FormatDiff ==
    (call.op = "formatDiff" /\ call.done)
    => /\ call.diff = 0 => call.out = <<PlusMinus, "0">>
       /\ call.diff > 0 => /\ Head(call.out) = "+"
                           /\ IsDecimalOf(Tail(call.out), call.diff)
       /\ call.diff < 0 => /\ Head(call.out) = "-"
                           /\ IsDecimalOf(Tail(call.out), 0 - call.diff)

\* a negative diff of three digits has been formatted
C11_Witness ==
    /\ call.op = "formatDiff" /\ call.done
    /\ call.diff < -99
    /\ Len(call.out) = 4


\* C12: the credential file's name is derived deterministically, and two distinct
\* (host, handle) pairs get distinct names (the hash taken to be injective).
C12_DistinctPairsDistinctNames ==
    (call.op = "authFileName" /\ call.done)
    => /\ call.again1 = call.name1
       /\ (<<call.host1, call.handle1>> # <<call.host2, call.handle2>>
             => call.name1 # call.name2)


\* C13: a tick makes at most one fetch call and at most one publish call, the
\* publish call only after its fetch succeeded, and it ends in Success or in
\* Aborted (the fetch or the publish failed, nothing retried).
C13_TickStateMachine ==
    tick.outcome # "none"
    => /\ tick.fetchCalls = 1
       /\ tick.postCalls <= 1
       /\ (tick.postCalls = 1 => tick.fetched # NoData)
       /\ tick.outcome \in {"success", "fetchFailed", "postFailed"}

\* C14: the createdAt of a published record denotes the instant at which it was
\* made, whatever the offset of the local time zone.
C14_CreatedAtIsUTC ==
    (call.op = "post" /\ call.done) => Denoted(call.createdAt) = call.instant


\* the snapshots fetchData can return
Snapshots == [Posts : Counts, Follows : Counts, Followers : Counts]

\* the text of the record the last tick sent
SentText == POST_FORMAT(tick.param)

\* C15: the did and the tokens of the client are those the startup session bootstrap
\* produced: no tick changes them, and every record a tick sends goes to the repo of
\* the did obtained at startup.
C15_TicksKeepCredentials ==
    pc = "running"
    => /\ auth = run.auth
       /\ \E s \in Sessions : auth = Adopt(EmptyAuth, s)
       /\ run.createCalls + run.refreshCalls = 1
       /\ (tick.postCalls = 1 => tick.repo = run.auth.Did)

\* a tick has fetched a snapshot other than the startup one and posted it
C15_Witness ==
    /\ pc = "running"
    /\ tick.outcome = "success"
    /\ prevSuccess # data
    /\ tick.repo = auth.Did

\* the places of text where the plus-minus sign is followed by "0"
ZeroDiffsIn(text) ==
    { i \in 1..(Len(text) - 1) : text[i] = PlusMinus /\ text[i + 1] = "0" }

\* C16: the three diffs of a tick are, field by field, the fetched value minus the
\* baseline value in use; when the fetched snapshot equals the baseline the three
\* diffs are zero and each is rendered as the plus-minus sign followed by "0".
C16_DiffsFieldByField ==
    tick.postCalls = 1
    => /\ DiffsAre(tick.param, tick.baseline, tick.fetched)
       /\ tick.fetched = tick.baseline
            => /\ tick.param.PostsCountDiff = 0
               /\ tick.param.FollowsCountDiff = 0
               /\ tick.param.FollowersCountDiff = 0
               /\ Cardinality(ZeroDiffsIn(SentText)) = 3
               /\ \A i \in DOMAIN SentText : SentText[i] \notin {"+", "-"}

\* a tick fetched the baseline again and posted; the counters are not all equal
C16_Witness ==
    /\ tick.postCalls = 1
    /\ tick.fetched = tick.baseline
    /\ tick.baseline.Posts # tick.baseline.Followers

\* C17: the scheduler runs only in a process whose config load, newClient and
\* startup fetch all succeeded: a running process has the client newClient returned
\* and the snapshot the startup fetch returned, a tick has run only in such a
\* process, and a startup that failed has ended the process with no tick run and
\* nothing posted.
C17_NoTickWithoutStartup ==
    /\ pc = "running"
         => /\ run.called /\ run.err = ""
            /\ auth = run.auth /\ auth.Did # ""
            /\ data \in Snapshots
    /\ (pc = "running" /\ tick.outcome = "none")
         => /\ lastFetch.called /\ ~lastFetch.resp.err
            /\ data = [ Posts |-> lastFetch.resp.PostsCount,
                        Follows |-> lastFetch.resp.FollowsCount,
                        Followers |-> lastFetch.resp.FollowersCount ]
    /\ tick.outcome # "none" => (run.called /\ run.err = "")
    /\ pc = "fatal" => tick = NoTick
    /\ (~run.called \/ run.err # "") => (pc # "running" /\ tick = NoTick)

\* newClient returned a client and the startup fetch failed: the process has ended
C17_Witness ==
    /\ pc = "fatal"
    /\ run.called /\ run.err = ""
    /\ lastFetch.called /\ lastFetch.kind = "error"
    /\ tick = NoTick

\* in text, label is followed by the digits ds and an opening parenthesis
ShownAfter(text, label, ds) ==
    \E i \in DOMAIN text :
        /\ text[i] = label
        /\ SubSeq(text, i + 1, i + Len(ds)) = ds
        /\ text[i + Len(ds) + 1] = "("

\* C18: the count a published message shows for each field is the baseline value,
\* not the fetched one: count shown + diff shown = the value fetched in that tick.
C18_ShownCountIsBaseline ==
    tick.postCalls = 1
    => /\ tick.param.PostsCount = tick.baseline.Posts
       /\ tick.param.FollowsCount = tick.baseline.Follows
       /\ tick.param.FollowersCount = tick.baseline.Followers
       /\ tick.param.PostsCount + tick.param.PostsCountDiff = tick.fetched.Posts
       /\ tick.param.FollowsCount + tick.param.FollowsCountDiff = tick.fetched.Follows
       /\ tick.param.FollowersCount + tick.param.FollowersCountDiff = tick.fetched.Followers
       /\ ShownAfter(SentText, "posts: ", FmtD(tick.baseline.Posts))
       /\ ShownAfter(SentText, "follows: ", FmtD(tick.baseline.Follows))
       /\ ShownAfter(SentText, "followers: ", FmtD(tick.baseline.Followers))

\* a published message whose posts count differs from the value just fetched
C18_Witness ==
    /\ tick.outcome = "success"
    /\ tick.fetched.Posts # tick.baseline.Posts
    /\ tick.param.PostsCount = tick.baseline.Posts

====
